---- MODULE Spec2Model ----
(***************************************************************************)
(* State-machine model of the alpha-tribe stock discussion backend:        *)
(* the JWT auth gate, register and login, the profile routes and the       *)
(* post / comment / like handlers.                                         *)
(*                                                                         *)
(* Every handler is an async function; the points where another request    *)
(* can run are its awaits on the store.  One action of the model is one    *)
(* store operation of a handler together with the synchronous code that    *)
(* runs before the handler's next await (or its response).                 *)
(*                                                                         *)
(* The repository holds two revisions of several files.  rev = "old" is    *)
(* the revision of src/middleware/authMiddle.js, src/routes/posts.js,      *)
(* src/routes/comments.js:1-63, src/routes/auth.js and                     *)
(* src/unnamed/part_000; rev = "new" is the revision of                    *)
(* src/unnamed/part_006, src/unnamed/part_002,                             *)
(* src/routes/comments.js:64-582, src/unnamed/part_004 and                 *)
(* src/unnamed/part_001.  A deployment runs one of them.                   *)
(***************************************************************************)
EXTENDS Integers, Sequences, FiniteSets, TLC

\* ---------------------------------------------------------------- bounds
MaxUsers    == 2      \* registered users
MaxPosts    == 1      \* post ids ever generated
MaxComments == 1      \* comment ids ever generated
MaxReq      == 2      \* requests in flight at once
MaxTokens   == 2      \* tokens issued by login
ClockStep   == 1800   \* seconds the clock advances in one Tick
MaxClock    == 3600   \* the clock stops advancing here
MaxFeed     == 2      \* posts in the store when the list route is exercised

\* ------------------------------------------------------ program constants
ExpiresIn == 3600     \* jwt.sign(..., { expiresIn: '1h' }), in seconds

VARIABLES
    rev,          \* which revision of the sources is deployed
    clock,        \* Date.now() in seconds
    users,        \* users collection: id -> record
    posts,        \* posts collection: id -> record
    comments,     \* comments collection: id -> record
    nextPost,     \* number of post ids generated so far
    nextComment,  \* number of comment ids generated so far
    issued,       \* tokens login has signed and returned
    req,          \* requests in flight: slot -> request context
    resp          \* the last response sent

vars == <<rev, clock, users, posts, comments, nextPost, nextComment, issued, req, resp>>

UserIds    == 1..MaxUsers
PostIds    == 1..MaxPosts
CommentIds == 1..MaxComments
\* The ids a client may put in :postId; the last one is never given to a post.
PathPostIds == 1..(MaxPosts + 1)
Slots      == 1..MaxReq
Revisions  == {"old", "new"}

\* ------------------------------------------------------------- passwords
\* bcrypt.hash(password, salt): a salted one-way digest, never the plaintext.
BcryptHash(password, salt) == <<"$2b$", salt, password>>

\* Mutant: the result of the comparison is not used.
BcryptCompareAlways(password, hash) == TRUE

\* bcrypt.compare(password, hash)
BcryptCompare(password, hash) == hash = BcryptHash(password, hash[2])

EmailOf(u)    == <<"mail", u>>
PasswordOf(u) == <<"pw", u>>
Emails        == {EmailOf(u) : u \in 1..(MaxUsers + 1)}
Passwords     == {PasswordOf(u) : u \in UserIds}

\* ---------------------------------------------------------------- tokens
\* A JWT: the payload {id, iat, exp} and who signed it.  sig = "server" is a
\* signature made with process.env.JWT_SECRET_KEY; "other" is a signature made
\* without it; "garbage" is a string that is no JWT at all.
NoTok == [id |-> 0, iat |-> 0, exp |-> 0, sig |-> "none"]

\* Mutant: jwt.sign without expiresIn, the token never expires.
JwtSignNoExpiry(id, now) ==
    [id |-> id, iat |-> now, exp |-> now + 1000 * ExpiresIn, sig |-> "server"]

\* jwt.sign({ id }, JWT_SECRET_KEY, { expiresIn: '1h' }) at time now
JwtSign(id, now) == [id |-> id, iat |-> now, exp |-> now + ExpiresIn, sig |-> "server"]

\* Mutant: jwt.decode in place of jwt.verify, the signature is not checked.
JwtDecodeOnly(tok, now) == tok.sig \in {"server", "other"} /\ now < tok.exp

\* Mutant: jwt.verify with ignoreExpiration.
JwtVerifyIgnoreExpiration(tok, now) == tok.sig = "server"

\* jwt.verify(token, JWT_SECRET_KEY) at time now: TRUE when it returns the
\* payload, FALSE when it throws (bad signature, malformed, or now >= exp).
JwtVerify(tok, now) == tok.sig = "server" /\ now < tok.exp

\* Tokens a client can make without the secret: any id, any expiry.
ForgedTokens ==
    {[id |-> u, iat |-> 0, exp |-> MaxClock + ExpiresIn, sig |-> "other"] : u \in UserIds}
        \cup {[id |-> 0, iat |-> 0, exp |-> 0, sig |-> "garbage"]}

\* The Authorization header of a request: absent, present without a second
\* word ("Bearer"), or "Bearer <token>".
NoHeader   == [hdr |-> "none", tok |-> NoTok]
NoTokenHdr == [hdr |-> "notoken", tok |-> NoTok]
Bearer(t)  == [hdr |-> "token", tok |-> t]

AuthHeaders == {NoHeader, NoTokenHdr} \cup {Bearer(t) : t \in issued \cup ForgedTokens}

\* ------------------------------------------------------------ collections
\* A found document is <<record>>, "no document" (null) is <<>>.
NoDoc == <<>>

\* Model.findById(id)
findById(coll, id) == IF id \in DOMAIN coll THEN <<coll[id]>> ELSE NoDoc

\* Model.findByIdAndDelete(id)
findByIdAndDelete(coll, id) == [i \in (DOMAIN coll) \ {id} |-> coll[i]]

\* Mutant: a strict comparison of an ObjectId with the id string, never equal.
includesStrict(list, id) == FALSE

\* Array.prototype.includes on a list of ids
includes(list, id) == \E i \in 1..Len(list) : list[i] = id

\* post.likes.unshift(id)
unshift(list, id) == <<id>> \o list

\* Mutant: the filter keeps the caller's like and drops the others.
filterKeep(list, id) == SelectSeq(list, LAMBDA like : like = id)

\* post.likes.filter(like => like.toString() !== id)
filterOut(list, id) == SelectSeq(list, LAMBDA like : like # id)

\* The required: true validator of a String path: undefined, null and "" fail.
required(value) == value # ""

\* ---------------------------------------------------------------- requests
ProtectedKinds ==
    {"createPost", "deletePost", "like", "unlike", "addComment", "deleteComment",
     "getProfile", "updateProfile"}

\* The path parameters of a request (0: the route has no such parameter).
Params(postId, commentId, userId) ==
    [postId |-> postId, commentId |-> commentId, userId |-> userId]

NoBody ==
    [user |-> 0, stockSymbol |-> "", title |-> "", description |-> "", tags |-> {},
     comment |-> "", username |-> "", email |-> <<>>, password |-> <<>>, bio |-> "",
     profilePicture |-> ""]

\* A body may carry a user id of its own (0: it carries none).
BodyUsers == {0, 1}

\* Request bodies of POST /posts: a complete body, one that also names another
\* user as the owner, and bodies with one required field missing or empty.
PostBodies ==
    {[NoBody EXCEPT !.user = u, !.stockSymbol = "AAPL", !.title = "t", !.description = "d"] :
        u \in BodyUsers}
    \cup {[NoBody EXCEPT !.title = "t", !.description = "d"],
          [NoBody EXCEPT !.stockSymbol = "AAPL", !.description = "d"],
          [NoBody EXCEPT !.stockSymbol = "AAPL", !.title = "t"]}

\* Request bodies of POST /posts/:postId/comments
CommentBodies ==
    {[NoBody EXCEPT !.user = u, !.comment = c] : u \in BodyUsers, c \in {"hi"}}
    \cup {NoBody}

Idle ==
    [kind |-> "none", pc |-> "idle", user |-> 0, tok |-> NoTok, fresh |-> FALSE,
     postId |-> 0, commentId |-> 0, userId |-> 0, body |-> NoBody, doc |-> NoDoc,
     stale |-> FALSE]

\* A response: who sent it, for which route, its status, the Authorization
\* header and the query string of the request it answers, and of its payload
\* the parts that name users, tokens or posts: views are the user objects in
\* it, token the JWT in it, items the posts of a list and pagination its
\* metadata.
NoQuery == [stockSymbol |-> "", tags |-> {}, sortBy |-> "", page |-> 1, limit |-> 10]
NoPagination == [currentPage |-> 0, totalPages |-> 0, totalPosts |-> 0]
NoResp ==
    [by |-> "none", kind |-> "none", status |-> 0, auth |-> NoHeader, query |-> NoQuery,
     views |-> {}, token |-> NoTok, items |-> <<>>, pagination |-> NoPagination]

\* res.status(code).send(...) by a route handler, with a payload that names no
\* user, token or post (a message, a flag, a generated id)
Reply(r, code) == [NoResp EXCEPT !.by = "handler", !.kind = req[r].kind, !.status = code]

\* A user object in a payload: whose it is, which paths of the user document
\* it has, and the value of the password path (NoPassword when it has none).
NoPassword == <<>>
View(u, fields, password) == [id |-> u, fields |-> fields, password |-> password]

InFlight == {r \in Slots : req[r].pc # "idle"}

\* A new request is served in the lowest free request context.
FreeSlot(r) == req[r].pc = "idle" /\ \A q \in Slots : q < r => req[q].pc # "idle"

\* --------------------------------------------------------------- auth gate
\* What one run of the middleware does: next |-> TRUE is a call of next() with
\* req.user = payload; otherwise status is the response it sends.
Pass(payload)  == [next |-> TRUE, status |-> 0, user |-> payload.id]
Reject(code)   == [next |-> FALSE, status |-> code, user |-> 0]

\* The async middleware throws: its promise rejects, next() is not called and
\* the middleware sends nothing.  Express 4 then leaves the request without a
\* response (status 0); Express 5 hands the rejection to its default error
\* handler, which answers 500.
Thrown == {Reject(0), Reject(500)}

\* src/middleware/authMiddle.js: authenticator
authenticatorOld(auth, now) ==
    IF auth.hdr = "none" THEN Thrown              \* undefined.split(" ")
    ELSE IF auth.hdr = "notoken" THEN Thrown      \* throw new Error("Not authorized ...")
    ELSE IF JwtVerify(auth.tok, now) THEN {Pass(auth.tok)}
    ELSE {Reject(401)}

\* src/unnamed/part_006: authenticator
authenticator(auth, now) ==
    IF auth.hdr = "none" THEN {Reject(401)}
    ELSE IF auth.hdr = "token" /\ JwtVerify(auth.tok, now) THEN {Pass(auth.tok)}
    ELSE {Reject(401)}                            \* jwt.verify threw

Gate(auth, now) == IF rev = "old" THEN authenticatorOld(auth, now) ELSE authenticator(auth, now)

\* Mutant: the middleware records the caller's visit in the users collection.
ProtectedRecording(r, kind, auth, params, body) ==
    /\ FreeSlot(r)
    /\ \E o \in Gate(auth, clock) :
        IF o.next
        THEN /\ req' = [req EXCEPT ![r] =
                    [kind |-> kind, pc |-> "handler", user |-> o.user, tok |-> auth.tok,
                     fresh |-> clock < auth.tok.iat + ExpiresIn,
                     postId |-> params.postId, commentId |-> params.commentId,
                     userId |-> params.userId, body |-> body,
                     doc |-> NoDoc, stale |-> FALSE]]
             /\ resp' = NoResp
             /\ users' = [users EXCEPT ![o.user].bio = "seen"]
        ELSE /\ req' = req
             /\ resp' = [NoResp EXCEPT !.by = "authenticator", !.status = o.status,
                                       !.auth = auth]
             /\ UNCHANGED users
    /\ UNCHANGED <<rev, clock, posts, comments, nextPost, nextComment, issued>>

\* A request for a protected route arrives and runs through the middleware;
\* on next() the route handler starts and awaits its first store operation.
Protected(r, kind, auth, params, body) ==
    /\ FreeSlot(r)
    /\ \E o \in Gate(auth, clock) :
        IF o.next
        THEN /\ req' = [req EXCEPT ![r] =
                    [kind |-> kind, pc |-> "handler", user |-> o.user, tok |-> auth.tok,
                     fresh |-> clock < auth.tok.iat + ExpiresIn,
                     postId |-> params.postId, commentId |-> params.commentId,
                     userId |-> params.userId, body |-> body,
                     doc |-> NoDoc, stale |-> FALSE]]
             /\ resp' = NoResp
        ELSE /\ req' = req
             /\ resp' = [NoResp EXCEPT !.by = "authenticator", !.status = o.status,
                                       !.auth = auth]
    /\ UNCHANGED <<rev, clock, users, posts, comments, nextPost, nextComment, issued>>

\* The requests clients send to the protected post and comment routes, with
\* an Authorization header out of headers.
ReceiveContent(headers) ==
    \E r \in Slots, auth \in headers :
        \/ \E body \in PostBodies :
              /\ nextPost + Cardinality({q \in Slots : req[q].kind = "createPost"}) < MaxPosts
              /\ Protected(r, "createPost", auth, Params(0, 0, 0), body)
        \/ \E p \in PostIds, kind \in {"deletePost", "like", "unlike"} :
              Protected(r, kind, auth, Params(p, 0, 0), NoBody)
        \/ \E p \in PostIds, body \in CommentBodies :
              /\ nextComment + Cardinality({q \in Slots : req[q].kind = "addComment"}) < MaxComments
              /\ Protected(r, "addComment", auth, Params(p, 0, 0), body)
        \/ \E p \in PathPostIds, c \in CommentIds :
              Protected(r, "deleteComment", auth, Params(p, c, 0), NoBody)

\* ------------------------------------------------------------ post routes
\* The handler's local state is dropped with its response.
Done(r, code) ==
    /\ req' = [req EXCEPT ![r] = Idle]
    /\ resp' = Reply(r, code)

\* Mutant: the owner is taken from the request body when it names one.
newPostFromBody(r) ==
    [user |-> IF req[r].body.user # 0 THEN req[r].body.user ELSE req[r].user,
     stockSymbol |-> req[r].body.stockSymbol,
     title |-> req[r].body.title, description |-> req[r].body.description,
     tags |-> req[r].body.tags, comments |-> <<>>, likes |-> <<>>, createdAt |-> clock]

\* new Post_Model({ user: req.user.id, stockSymbol, title, description, tags })
newPost(r) ==
    [user |-> req[r].user, stockSymbol |-> req[r].body.stockSymbol,
     title |-> req[r].body.title, description |-> req[r].body.description,
     tags |-> req[r].body.tags, comments |-> <<>>, likes |-> <<>>, createdAt |-> clock]

\* Mutant: the schema does not require stockSymbol.
validPostWithoutSymbol(doc) == required(doc.title) /\ required(doc.description)

\* Post_Schema's validation, run by save() before the insert.
validPost(doc) == required(doc.stockSymbol) /\ required(doc.title) /\ required(doc.description)

\* Mongoose's versionKey (__v).  save() of a document whose array was replaced
\* (unshift, or assignment of a filtered copy) sends the whole array as $set
\* with the version it read in the filter, and increments the version; save()
\* after push sends $push and increments the version without filtering on it.
\* The filter matches exactly when no save has incremented the version since
\* the document was read, so the model keeps that fact (stale) with every
\* document a handler holds instead of the counter itself.
bumpVersion(rq, r, p) ==
    [q \in Slots |->
        IF q # r /\ rq[q].pc = "saving" /\ rq[q].postId = p
        THEN [rq[q] EXCEPT !.stale = TRUE] ELSE rq[q]]

\* POST /posts, after authenticator: newPost.save() validates, then inserts.
CreatePost(r) ==
    /\ req[r].pc = "handler" /\ req[r].kind = "createPost"
    /\ IF validPost(newPost(r))
       THEN /\ nextPost < MaxPosts
            /\ nextPost' = nextPost + 1
            /\ posts' = posts @@ (nextPost' :> newPost(r))
            /\ Done(r, 200)
       ELSE /\ Done(r, 500)                       \* ValidationError, caught
            /\ UNCHANGED <<posts, nextPost>>
    /\ UNCHANGED <<rev, clock, users, comments, nextComment, issued>>

\* Mutant: the ownership test is missing.
isOwnerAlways(post, r) == TRUE

\* The ownership test of DELETE /posts/:postId
isOwner(post, r) == post.user = req[r].user

\* GET /posts/:postId (no authenticator): findById, then populate, which reads
\* the username of the post's owner and of the authors of its comments.
getById(p) ==
    LET post == findById(posts, p) IN
    IF post = NoDoc
    THEN [NoResp EXCEPT !.by = "handler", !.kind = "getPost", !.status = 404]
    ELSE LET authors == {comments[c].user :
                            c \in {post[1].comments[i] : i \in 1..Len(post[1].comments)}
                                    \cap DOMAIN comments}
         IN  [NoResp EXCEPT !.by = "handler", !.kind = "getPost", !.status = 200,
                            !.views = {View(u, {"_id", "username"}, NoPassword) :
                                          u \in ({post[1].user} \cup authors) \cap DOMAIN users}]

GetPost(p) ==
    /\ resp' = getById(p)
    /\ UNCHANGED <<rev, clock, users, posts, comments, nextPost, nextComment, issued, req>>

\* ------------------------------------------------------------ GET /posts
\* The query string of GET /posts: stockSymbol and tags ("" and {}: not
\* given), sortBy ("": not given), page and limit (defaults 1 and 10).
ListQueries ==
    [stockSymbol : {"", "AAPL"}, tags : {{}, {"tech"}}, sortBy : {"", "date", "likes"},
     page : {1, 2}, limit : {1, 10}]

\* The filter of Post_Model.find(query): stockSymbol equal, tags $in.
matches(post, q) ==
    /\ q.stockSymbol # "" => post.stockSymbol = q.stockSymbol
    /\ q.tags # {} => post.tags \cap q.tags # {}

\* The value MongoDB sorts a document by under sort({ createdAt: -1 }) and
\* sort({ likes: -1 }).  likes is an array of user ids: a descending sort on
\* an array path compares the largest element of each array, and an empty
\* array sorts below every value.  User ids are ObjectIds, ordered by the
\* time they were generated.  Without sortBy the sort document is {}.
sortKey(post, sortBy) ==
    IF sortBy = "date" THEN post.createdAt
    ELSE IF sortBy = "likes"
    THEN (IF post.likes = <<>> THEN 0
          ELSE CHOOSE m \in {post.likes[i] : i \in 1..Len(post.likes)} :
                  \A i \in 1..Len(post.likes) : post.likes[i] <= m)
    ELSE 0

\* The orders in which find(query).sort(sort) can return the matching posts:
\* descending in the sort key, documents with equal keys in any order.
sorted(ids, sortBy) ==
    {o \in [1..Cardinality(ids) -> ids] :
        /\ \A i, j \in 1..Cardinality(ids) : i # j => o[i] # o[j]
        /\ \A i, j \in 1..Cardinality(ids) :
              i < j => sortKey(posts[o[i]], sortBy) >= sortKey(posts[o[j]], sortBy)}

\* .limit(limitNumber).skip(skip) with skip = (pageNumber - 1) * limitNumber
slice(o, page, limit) ==
    LET skip == (page - 1) * limit IN
    [i \in 1..(IF Len(o) <= skip THEN 0
               ELSE IF Len(o) - skip < limit THEN Len(o) - skip ELSE limit) |-> o[skip + i]]

\* Math.ceil(totalPosts / limitNumber)
ceilDiv(n, d) == (n + d - 1) \div d

\* An element of the posts array of the response.  The new revision sends
\* { postId, stockSymbol, title, description, likesCount, createdAt }; the old
\* one sends the selected paths of the document, likes included.
formatted(p) ==
    IF rev = "old"
    THEN [postId |-> p, fields |-> {"_id", "stockSymbol", "title", "description", "likes",
                                    "createdAt"},
          stockSymbol |-> posts[p].stockSymbol, likesCount |-> -1,
          likes |-> posts[p].likes, createdAt |-> posts[p].createdAt]
    ELSE [postId |-> p, fields |-> {"postId", "stockSymbol", "title", "description",
                                    "likesCount", "createdAt"},
          stockSymbol |-> posts[p].stockSymbol, likesCount |-> Len(posts[p].likes),
          likes |-> <<>>, createdAt |-> posts[p].createdAt]

\* GET /posts (no authenticator): countDocuments(query) and
\* find(query).sort(sort).select(...).limit(limitNumber).skip(skip) on a store
\* that no request is writing; the old revision has no pagination.
ListPosts(q) ==
    /\ LET ids == {p \in DOMAIN posts : matches(posts[p], q)} IN
        \E o \in sorted(ids, q.sortBy) :
            resp' = IF rev = "old"
                    THEN [NoResp EXCEPT !.by = "handler", !.kind = "listPosts", !.status = 200,
                                        !.query = q,
                                        !.items = [i \in 1..Len(o) |-> formatted(o[i])]]
                    ELSE LET page == slice(o, q.page, q.limit) IN
                         [NoResp EXCEPT !.by = "handler", !.kind = "listPosts", !.status = 200,
                                        !.query = q,
                                        !.items = [i \in 1..Len(page) |-> formatted(page[i])],
                                        !.pagination =
                                            [currentPage |-> q.page,
                                             totalPages |-> ceilDiv(Cardinality(ids), q.limit),
                                             totalPosts |-> Cardinality(ids)]]
    /\ UNCHANGED <<rev, clock, users, posts, comments, nextPost, nextComment, issued, req>>

\* Mutant: the handler fetches the post with findByIdAndDelete and checks the
\* owner afterwards.
DeletePostFindDeletesFirst(r) ==
    /\ req[r].pc = "handler" /\ req[r].kind = "deletePost"
    /\ LET post == findById(posts, req[r].postId) IN
        IF post = NoDoc THEN Done(r, 404) /\ UNCHANGED posts
        ELSE /\ posts' = findByIdAndDelete(posts, req[r].postId)
             /\ IF ~isOwner(post[1], r) THEN Done(r, 401) ELSE Done(r, 200)
    /\ UNCHANGED <<rev, clock, users, comments, nextPost, nextComment, issued>>

\* DELETE /posts/:postId: findById, then the checks made on what it returned.
DeletePostFind(r) ==
    /\ req[r].pc = "handler" /\ req[r].kind = "deletePost"
    /\ LET post == findById(posts, req[r].postId) IN
        IF post = NoDoc THEN Done(r, 404)
        ELSE IF ~isOwner(post[1], r) THEN Done(r, 401)
        ELSE /\ req' = [req EXCEPT ![r].pc = "deleting", ![r].doc = post]
             /\ resp' = NoResp
    /\ UNCHANGED <<rev, clock, users, posts, comments, nextPost, nextComment, issued>>

\* Mutant: the delete cascades to the comments of the post.
DeletePostCascading(r) ==
    /\ req[r].pc = "deleting" /\ req[r].kind = "deletePost"
    /\ posts' = findByIdAndDelete(posts, req[r].postId)
    /\ comments' = [c \in {d \in DOMAIN comments : comments[d].post # req[r].postId} |->
                        comments[c]]
    /\ Done(r, 200)
    /\ UNCHANGED <<rev, clock, users, nextPost, nextComment, issued>>

\* DELETE /posts/:postId: findByIdAndDelete, then the 200.
DeletePost(r) ==
    /\ req[r].pc = "deleting" /\ req[r].kind = "deletePost"
    /\ posts' = findByIdAndDelete(posts, req[r].postId)
    /\ Done(r, 200)
    /\ UNCHANGED <<rev, clock, users, comments, nextPost, nextComment, issued>>

\* Mutant: the already-liked test looks at the post's owner.
alreadyLikedOwner(post, r) == post.user = req[r].user

\* Mutant: the test asks whether anyone has liked the post.
alreadyLikedByAnyone(post, r) == Len(post.likes) > 0

\* post.likes.includes(req.user.id)
alreadyLiked(post, r) == includes(post.likes, req[r].user)

\* POST /posts/:postId/like: findById, the checks, and the unshift on the copy.
LikeFind(r) ==
    /\ req[r].pc = "handler" /\ req[r].kind = "like"
    /\ LET post == findById(posts, req[r].postId) IN
        IF post = NoDoc THEN Done(r, 404)
        ELSE IF alreadyLiked(post[1], r) THEN Done(r, 400)
        ELSE /\ req' = [req EXCEPT ![r].pc = "saving",
                            ![r].doc = <<[post[1] EXCEPT !.likes = unshift(@, req[r].user)]>>]
             /\ resp' = NoResp
    /\ UNCHANGED <<rev, clock, users, posts, comments, nextPost, nextComment, issued>>

\* DELETE /posts/:postId/like: findById, the checks, and the filtered copy.
UnlikeFind(r) ==
    /\ req[r].pc = "handler" /\ req[r].kind = "unlike"
    /\ LET post == findById(posts, req[r].postId) IN
        IF post = NoDoc THEN Done(r, 404)
        ELSE IF ~alreadyLiked(post[1], r) THEN Done(r, 400)
        ELSE /\ req' = [req EXCEPT ![r].pc = "saving",
                            ![r].doc = <<[post[1] EXCEPT !.likes = filterOut(@, req[r].user)]>>]
             /\ resp' = NoResp
    /\ UNCHANGED <<rev, clock, users, posts, comments, nextPost, nextComment, issued>>

\* Mutant: the save is an upsert, which inserts the document the handler holds
\* when the store has none of its id.
SaveLikesUpserting(r) ==
    /\ req[r].pc = "saving" /\ req[r].kind \in {"like", "unlike"}
    /\ LET p == req[r].postId IN
        IF p \in DOMAIN posts /\ ~req[r].stale
        THEN /\ posts' = [posts EXCEPT ![p].likes = req[r].doc[1].likes]
             /\ req' = [bumpVersion(req, r, p) EXCEPT ![r] = Idle]
             /\ resp' = Reply(r, 200)
        ELSE IF p \notin DOMAIN posts
        THEN /\ posts' = posts @@ (p :> req[r].doc[1])
             /\ Done(r, 200)
        ELSE /\ Done(r, 500)
             /\ UNCHANGED posts
    /\ UNCHANGED <<rev, clock, users, comments, nextPost, nextComment, issued>>

\* post.save() of like and unlike: $set of likes, filtered on _id and __v.
\* No matching document (deleted, or saved by another request since the
\* read) is a VersionError, which the handler answers with 500.
SaveLikes(r) ==
    /\ req[r].pc = "saving" /\ req[r].kind \in {"like", "unlike"}
    /\ LET p == req[r].postId IN
        IF p \in DOMAIN posts /\ ~req[r].stale
        THEN /\ posts' = [posts EXCEPT ![p].likes = req[r].doc[1].likes]
             /\ req' = [bumpVersion(req, r, p) EXCEPT ![r] = Idle]
             /\ resp' = Reply(r, 200)
        ELSE /\ Done(r, 500)
             /\ UNCHANGED posts
    /\ UNCHANGED <<rev, clock, users, comments, nextPost, nextComment, issued>>

\* --------------------------------------------------------- comment routes
\* new Comment_Model({ user: req.user.id, post: req.params.postId, content: req.body.comment })
newComment(r) ==
    [user |-> req[r].user, post |-> req[r].postId, content |-> req[r].body.comment]

\* POST /posts/:postId/comments: findById of the post; newComment.save()
\* validates (content is required) before it inserts.
AddCommentFind(r) ==
    /\ req[r].pc = "handler" /\ req[r].kind = "addComment"
    /\ LET post == findById(posts, req[r].postId) IN
        IF post = NoDoc THEN Done(r, 404)
        ELSE IF ~required(newComment(r).content) THEN Done(r, 500)
        ELSE /\ req' = [req EXCEPT ![r].pc = "savingComment", ![r].doc = <<newComment(r)>>]
             /\ resp' = NoResp
    /\ UNCHANGED <<rev, clock, users, posts, comments, nextPost, nextComment, issued>>

\* newComment.save(): the insert.  The old revision answers 200 here; the new
\* one goes on to post.comments.push(comment._id) and post.save().
AddCommentSave(r) ==
    /\ req[r].pc = "savingComment" /\ req[r].kind = "addComment"
    /\ nextComment < MaxComments
    /\ nextComment' = nextComment + 1
    /\ comments' = comments @@ (nextComment' :> req[r].doc[1])
    /\ IF rev = "old"
       THEN Done(r, 200)
       ELSE /\ req' = [req EXCEPT ![r].pc = "savingPost", ![r].commentId = nextComment']
            /\ resp' = NoResp
    /\ UNCHANGED <<rev, clock, users, posts, nextPost, issued>>

\* post.save() after the push: $push of the comment id, not filtered on __v.
\* No matching document (the post was deleted) is an error, answered 500.
AddCommentPush(r) ==
    /\ req[r].pc = "savingPost" /\ req[r].kind = "addComment"
    /\ LET p == req[r].postId IN
        IF p \in DOMAIN posts
        THEN /\ posts' = [posts EXCEPT ![p].comments = Append(@, req[r].commentId)]
             /\ req' = [bumpVersion(req, r, p) EXCEPT ![r] = Idle]
             /\ resp' = Reply(r, 200)
        ELSE /\ Done(r, 500)
             /\ UNCHANGED posts
    /\ UNCHANGED <<rev, clock, users, comments, nextPost, nextComment, issued>>

\* Mutant: the authorship test is missing.
isAuthorAlways(comment, r) == TRUE

\* The authorship test of DELETE /posts/:postId/comments/:commentId
isAuthor(comment, r) == comment.user = req[r].user

\* Mutant: the handler also asks that the comment belongs to the post of the
\* path.
DeleteCommentFindOnPost(r) ==
    /\ req[r].pc = "handler" /\ req[r].kind = "deleteComment"
    /\ LET comment == findById(comments, req[r].commentId) IN
        IF comment = NoDoc THEN Done(r, 404)
        ELSE IF comment[1].post # req[r].postId THEN Done(r, 404)
        ELSE IF ~isAuthor(comment[1], r) THEN Done(r, 401)
        ELSE /\ req' = [req EXCEPT ![r].pc = "deleting", ![r].doc = comment]
             /\ resp' = NoResp
    /\ UNCHANGED <<rev, clock, users, posts, comments, nextPost, nextComment, issued>>

\* DELETE /posts/:postId/comments/:commentId: findById, then the checks.
DeleteCommentFind(r) ==
    /\ req[r].pc = "handler" /\ req[r].kind = "deleteComment"
    /\ LET comment == findById(comments, req[r].commentId) IN
        IF comment = NoDoc THEN Done(r, 404)
        ELSE IF ~isAuthor(comment[1], r) THEN Done(r, 401)
        ELSE /\ req' = [req EXCEPT ![r].pc = "deleting", ![r].doc = comment]
             /\ resp' = NoResp
    /\ UNCHANGED <<rev, clock, users, posts, comments, nextPost, nextComment, issued>>

\* DELETE /posts/:postId/comments/:commentId: findByIdAndDelete, then the 200.
DeleteComment(r) ==
    /\ req[r].pc = "deleting" /\ req[r].kind = "deleteComment"
    /\ comments' = findByIdAndDelete(comments, req[r].commentId)
    /\ Done(r, 200)
    /\ UNCHANGED <<rev, clock, users, posts, nextPost, nextComment, issued>>

\* ------------------------------------------------------------ user routes
\* Request bodies of PUT /user/profile
ProfileBodies ==
    {[NoBody EXCEPT !.username = n, !.bio = b] :
        n \in {<<"name", 1>>, <<"name", MaxUsers + 1>>}, b \in {"trader"}}

\* The requests clients send to the protected user routes.
ReceiveUser(headers) ==
    \E r \in Slots, auth \in headers :
        \/ \E u \in 1..(MaxUsers + 1) :
              Protected(r, "getProfile", auth, Params(0, 0, u), NoBody)
        \/ \E body \in ProfileBodies :
              Protected(r, "updateProfile", auth, Params(0, 0, 0), body)

\* GET /user/profile/:userId: findById(...).select('-password'), and the
\* response { id, username, bio, profilePicture }.
GetProfile(r) ==
    /\ req[r].pc = "handler" /\ req[r].kind = "getProfile"
    /\ IF findById(users, req[r].userId) = NoDoc
       THEN Done(r, 404)
       ELSE /\ req' = [req EXCEPT ![r] = Idle]
            /\ resp' = [Reply(r, 200) EXCEPT !.views =
                            {View(req[r].userId, {"id", "username", "bio", "profilePicture"},
                                  NoPassword)}]
    /\ UNCHANGED <<rev, clock, users, posts, comments, nextPost, nextComment, issued>>

\* The unique index on username (unique: true): a write that would give two
\* users the same username fails with a duplicate key error.
usernameTaken(id, name) == \E u \in (DOMAIN users) \ {id} : users[u].username = name

\* PUT /user/profile:
\* findByIdAndUpdate(req.user.id, { username, bio, profilePicture }, { new: true }).
\* The new revision answers 404 when it returns null, the old one 200.
UpdateProfile(r) ==
    /\ req[r].pc = "handler" /\ req[r].kind = "updateProfile"
    /\ LET id == req[r].user
           b  == req[r].body IN
        IF id \notin DOMAIN users
        THEN /\ (IF rev = "old" THEN Done(r, 200) ELSE Done(r, 404))
             /\ UNCHANGED users
        ELSE IF usernameTaken(id, b.username)
        THEN /\ Done(r, 500)
             /\ UNCHANGED users
        ELSE /\ users' = [users EXCEPT ![id].username = b.username, ![id].bio = b.bio,
                                        ![id].profilePicture = b.profilePicture]
             /\ Done(r, 200)
    /\ UNCHANGED <<rev, clock, posts, comments, nextPost, nextComment, issued>>

\* The users collection is changed outside the routes (the application has
\* no route that deletes a user): a record is removed from the store while
\* tokens for it are still valid.  It is the case the handlers test for with
\* `if (!user)` after findById / findByIdAndUpdate of req.user.id.
RemoveUser(u) ==
    /\ u \in DOMAIN users
    /\ users' = findByIdAndDelete(users, u)
    /\ resp' = NoResp
    /\ UNCHANGED <<rev, clock, posts, comments, nextPost, nextComment, issued, req>>

\* ------------------------------------------------------------------ login
\* User_Model.findOne({ email })
findOneByEmail(email) ==
    LET hit == {u \in DOMAIN users : users[u].email = email} IN
    IF hit = {} THEN NoDoc ELSE <<CHOOSE u \in hit : TRUE>>

\* The response of POST /auth/login to { email, password }:
\* { token, user: { id, username, email } } on success.
login(email, password) ==
    LET found == findOneByEmail(email) IN
    IF found = NoDoc
    THEN [NoResp EXCEPT !.by = "handler", !.kind = "login", !.status = 404]
    ELSE IF ~BcryptCompare(password, users[found[1]].password)
    THEN [NoResp EXCEPT !.by = "handler", !.kind = "login", !.status = 400]
    ELSE [NoResp EXCEPT !.by = "handler", !.kind = "login", !.status = 200,
                        !.token = JwtSign(found[1], clock),
                        !.views = {View(found[1], {"id", "username", "email"}, NoPassword)}]

\* POST /auth/login: one read of the store, then compare, sign and respond.
Login(email, password) ==
    /\ resp' = login(email, password)
    /\ IF resp'.status = 200
       THEN /\ Cardinality(issued \cup {resp'.token}) <= MaxTokens
            /\ issued' = issued \cup {resp'.token}
       ELSE UNCHANGED issued
    /\ UNCHANGED <<rev, clock, users, posts, comments, nextPost, nextComment, req>>

\* --------------------------------------------------------------- register
\* bcrypt.genSalt(10): a random salt.
Salts == {<<"salt", s>> : s \in 1..MaxUsers}

\* Request bodies of POST /auth/register: username, email and password, and
\* a body without an email.
RegisterBodies ==
    {[NoBody EXCEPT !.username = <<"name", n>>, !.email = e, !.password = pw] :
        n \in UserIds, e \in {EmailOf(u) : u \in UserIds}, pw \in Passwords}
    \cup {[NoBody EXCEPT !.username = <<"name", 1>>, !.password = PasswordOf(1)]}

\* Mutant: the document is saved as constructed, without the hashing step.
newUserUnhashed(body, salt) ==
    [username |-> body.username, email |-> body.email,
     password |-> body.password, bio |-> "", profilePicture |-> ""]

\* new User_Model({ username, email, password }) with
\* user.password = await bcrypt.hash(password, salt)
newUser(body, salt) ==
    [username |-> body.username, email |-> body.email,
     password |-> BcryptHash(body.password, salt), bio |-> "", profilePicture |-> ""]

\* The required: true validators of UserSchema (an absent path is <<>>).
validUser(doc) == doc.username # <<>> /\ doc.email # <<>> /\ doc.password # <<>>

\* Mutant: the schema declares no unique index on email.
emailTakenNever(email) == FALSE

\* The unique index on email (unique: true): an insert that would give two
\* users the same email fails with a duplicate key error.
emailTaken(email) == \E u \in DOMAIN users : users[u].email = email

\* POST /auth/register: findOne({ email }), the 400 when it finds a user, else
\* the new document with its salted hash, about to be saved.
RegisterFind(r, body) ==
    /\ FreeSlot(r)
    /\ IF findOneByEmail(body.email) # NoDoc
       THEN /\ req' = req
            /\ resp' = [NoResp EXCEPT !.by = "handler", !.kind = "register", !.status = 400]
       ELSE /\ Cardinality(DOMAIN users)
                    + Cardinality({q \in Slots : req[q].kind = "register"}) < MaxUsers
            /\ \E salt \in Salts :
                  req' = [req EXCEPT ![r] =
                              [Idle EXCEPT !.kind = "register", !.pc = "saving",
                                           !.body = body, !.doc = <<newUser(body, salt)>>]]
            /\ resp' = NoResp
    /\ UNCHANGED <<rev, clock, users, posts, comments, nextPost, nextComment, issued>>

\* user.save(): validation, then the insert under the unique indexes.  The
\* old revision answers 201 and echoes the saved document (registeredUser:
\* user); the new one answers 200 with userId.
RegisterSave(r) ==
    /\ req[r].pc = "saving" /\ req[r].kind = "register"
    /\ LET doc == req[r].doc[1]
           id  == Cardinality(DOMAIN users) + 1 IN
        IF ~validUser(doc) \/ emailTaken(doc.email) \/ usernameTaken(id, doc.username)
        THEN /\ Done(r, 500)
             /\ UNCHANGED users
        ELSE /\ users' = users @@ (id :> doc)
             /\ req' = [req EXCEPT ![r] = Idle]
             /\ resp' = IF rev = "old"
                        THEN [Reply(r, 201) EXCEPT !.views =
                                {View(id, {"_id", "username", "email", "password", "bio",
                                           "profilePicture", "createdAt"}, doc.password)}]
                        ELSE Reply(r, 200)
    /\ UNCHANGED <<rev, clock, posts, comments, nextPost, nextComment, issued>>

\* Time passes.
Tick ==
    /\ clock + ClockStep <= MaxClock
    /\ clock' = clock + ClockStep
    /\ resp' = NoResp
    /\ UNCHANGED <<rev, users, posts, comments, nextPost, nextComment, issued, req>>

\* ------------------------------------------------------------ specification
\* The registered users: user u registered with EmailOf(u) and PasswordOf(u).
Registered ==
    [u \in UserIds |->
        [username |-> <<"name", u>>, email |-> EmailOf(u),
         password |-> BcryptHash(PasswordOf(u), <<"salt", u>>), bio |-> "",
         profilePicture |-> ""]]

\* Every registered user has logged in at time 0 and holds the token.
LoggedIn == {JwtSign(u, 0) : u \in UserIds}

\* Headers of the requests of Spec: none, or a token login returned.
SessionHeaders == {NoHeader} \cup {Bearer(t) : t \in issued}

Handlers ==
    \/ \E r \in Slots : CreatePost(r)
    \/ \E r \in Slots : DeletePostFind(r)
    \/ \E r \in Slots : DeletePost(r)
    \/ \E r \in Slots : LikeFind(r)
    \/ \E r \in Slots : UnlikeFind(r)
    \/ \E r \in Slots : SaveLikes(r)
    \/ \E r \in Slots : AddCommentFind(r)
    \/ \E r \in Slots : AddCommentSave(r)
    \/ \E r \in Slots : AddCommentPush(r)
    \/ \E r \in Slots : DeleteCommentFind(r)
    \/ \E r \in Slots : DeleteComment(r)

\* Spec: concurrent requests of logged-in users against the post, comment
\* and like routes, within the lifetime of their tokens.
Init ==
    /\ rev \in Revisions
    /\ clock = 0
    /\ users = Registered
    /\ posts = <<>>
    /\ comments = <<>>
    /\ nextPost = 0
    /\ nextComment = 0
    /\ issued = LoggedIn
    /\ req = [r \in Slots |-> Idle]
    /\ resp = NoResp

Next ==
    \/ ReceiveContent(SessionHeaders)
    \/ Handlers
    \/ \E p \in PostIds : GetPost(p)

Spec == Init /\ [][Next]_vars

\* SpecAuth: logins, the passing of time and requests with any Authorization
\* header, one request at a time.
InitAuth ==
    /\ rev \in Revisions
    /\ clock = 0
    /\ users = Registered
    /\ posts = <<>>
    /\ comments = <<>>
    /\ nextPost = 0
    /\ nextComment = 0
    /\ issued = {}
    /\ req = [r \in Slots |-> Idle]
    /\ resp = NoResp

NextAuth ==
    \/ \E email \in Emails, password \in Passwords : Login(email, password)
    \/ Tick
    \/ (InFlight = {} /\ ReceiveContent(AuthHeaders))
    \/ Handlers

SpecAuth == InitAuth /\ [][NextAuth]_vars

\* SpecAccounts: logins, the passing of time and concurrent requests against
\* the user routes with any Authorization header.
NextAccounts ==
    \/ \E email \in Emails, password \in Passwords : Login(email, password)
    \/ Tick
    \/ ReceiveUser(AuthHeaders)
    \/ \E r \in Slots : GetProfile(r)
    \/ \E r \in Slots : UpdateProfile(r)

SpecAccounts == InitAuth /\ [][NextAccounts]_vars

\* SpecProfile: logins and concurrent requests against the user routes while
\* user records can disappear from the store.
NextProfile ==
    \/ \E email \in Emails, password \in Passwords : Login(email, password)
    \/ ReceiveUser(SessionHeaders)
    \/ \E r \in Slots : GetProfile(r)
    \/ \E r \in Slots : UpdateProfile(r)
    \/ \E u \in UserIds : RemoveUser(u)

SpecProfile == InitAuth /\ [][NextProfile]_vars

\* SpecFeed: GET /posts against a store that holds up to MaxFeed posts of the
\* registered users, each liked by some of them, created at the same or at
\* different times.
LikeLists ==
    {l \in UNION {[1..n -> UserIds] : n \in 0..MaxUsers} :
        \A i, j \in 1..Len(l) : i # j => l[i] # l[j]}

FeedPosts ==
    [user : {1}, stockSymbol : {"AAPL", "TSLA"}, title : {"t"}, description : {"d"},
     tags : {{}, {"tech"}}, comments : {<<>>}, likes : LikeLists,
     createdAt : {0, ClockStep}]

FeedStores ==
    {f \in UNION {[1..n -> FeedPosts] : n \in 0..MaxFeed} :
        \A i, j \in DOMAIN f : i < j => f[i].createdAt <= f[j].createdAt}

InitFeed ==
    /\ rev \in Revisions
    /\ clock = ClockStep
    /\ users = Registered
    /\ posts \in FeedStores
    /\ comments = <<>>
    /\ nextPost = Len(posts)
    /\ nextComment = 0
    /\ issued = LoggedIn
    /\ req = [r \in Slots |-> Idle]
    /\ resp = NoResp

NextFeed == \E q \in ListQueries : ListPosts(q)

SpecFeed == InitFeed /\ [][NextFeed]_vars

\* SpecRegister: concurrent registrations into an empty users collection,
\* and logins.
InitRegister ==
    /\ rev \in Revisions
    /\ clock = 0
    /\ users = <<>>
    /\ posts = <<>>
    /\ comments = <<>>
    /\ nextPost = 0
    /\ nextComment = 0
    /\ issued = {}
    /\ req = [r \in Slots |-> Idle]
    /\ resp = NoResp

NextRegister ==
    \/ \E r \in Slots, body \in RegisterBodies : RegisterFind(r, body)
    \/ \E r \in Slots : RegisterSave(r)
    \/ \E email \in Emails, password \in Passwords : Login(email, password)

SpecRegister == InitRegister /\ [][NextRegister]_vars

\* ------------------------------------------------------------------ claims
\* The request context r takes a step: its handler goes on or responds.
Steps(r) == req[r].pc # "idle" /\ req'[r].pc # req[r].pc

\* The number of times user u occurs in a like list.
Occurrences(list, u) == Cardinality({i \in 1..Len(list) : list[i] = u})

\* C1: in every reachable state, under any interleaving of like and unlike
\* requests, the likes list of every post holds every user id at most once.
C1_LikesHoldUserAtMostOnce ==
    \A p \in DOMAIN posts : \A u \in UserIds : Occurrences(posts[p].likes, u) <= 1

\* Two like requests of the same user on the same post have both passed the
\* already-liked check and are about to save.
C1_Witness ==
    \E r, q \in Slots :
        /\ r # q
        /\ req[r].kind = "like" /\ req[q].kind = "like"
        /\ req[r].pc = "saving" /\ req[q].pc = "saving"
        /\ req[r].user = req[q].user /\ req[r].postId = req[q].postId

\* The request r is one whose caller the auth gate identified from a token
\* that login issued.
Authenticated(r) == req[r].tok \in issued /\ req[r].user = req[r].tok.id

\* C2: a post leaves the store only in a step of a DELETE /posts/:postId
\* request whose authenticated caller is the post's owner, and a comment only
\* in a step of a DELETE .../comments/:commentId request whose authenticated
\* caller is the comment's author.
C2_OnlyOwnerRemoves ==
    [][ /\ \A p \in DOMAIN posts :
              p \notin DOMAIN posts' =>
                  \E r \in Slots :
                      /\ Steps(r) /\ Authenticated(r)
                      /\ req[r].kind = "deletePost" /\ req[r].postId = p
                      /\ req[r].user = posts[p].user
        /\ \A c \in DOMAIN comments :
              c \notin DOMAIN comments' =>
                  \E r \in Slots :
                      /\ Steps(r) /\ Authenticated(r)
                      /\ req[r].kind = "deleteComment" /\ req[r].commentId = c
                      /\ req[r].user = comments[c].user
      ]_vars

\* A delete by the owner has removed the post while a delete request of the
\* other user was in flight.
C2_Witness ==
    /\ nextPost > 0 /\ DOMAIN posts = {}
    /\ resp.kind = "deletePost" /\ resp.status = 200
    /\ \E r \in Slots : req[r].kind = "deletePost" /\ req[r].pc = "handler"

\* C3: every step that creates or deletes a post or a comment or changes a
\* like list is a step of a request of a protected route that carried a
\* token which login issued and which was within its lifetime when the auth
\* gate verified it; a request without such a token changes none of them.
C3_OnlyVerifiedRequestsWrite ==
    [][ (posts' # posts \/ comments' # comments) =>
            \E r \in Slots :
                /\ Steps(r) /\ Authenticated(r) /\ req[r].fresh
                /\ req[r].kind \in ProtectedKinds
      ]_vars

\* The gate has just rejected a token that login issued (it has expired)
\* while the store holds a liked post.
C3_Witness ==
    /\ resp.by = "authenticator" /\ resp.auth.tok \in issued
    /\ \E p \in DOMAIN posts : Len(posts[p].likes) > 0

\* C4: a request to a protected route with no Authorization header, or with
\* a header that carries no token, is answered 401, and no handler runs for it.
C4_MissingTokenIs401 ==
    /\ (resp.by = "authenticator" /\ resp.auth.hdr \in {"none", "notoken"}) =>
            resp.status = 401
    /\ \A r \in InFlight : req[r].tok # NoTok

\* C5: a request to a protected route whose token is present but invalid,
\* expired or malformed is answered 401; next() is called, and req.user set,
\* only from a token that login issued and that is within its lifetime.
C5_InvalidTokenIs401 ==
    /\ (resp.by = "authenticator" /\ resp.auth.hdr = "token") => resp.status = 401
    /\ \A r \in InFlight : Authenticated(r) /\ req[r].fresh

\* The gate has just answered 401 to a token that login issued and that has
\* expired since.
C5_Witness ==
    /\ resp.by = "authenticator" /\ resp.status = 401
    /\ resp.auth.tok \in issued /\ clock >= resp.auth.tok.iat + ExpiresIn

\* C6: the identity a handler acts under is the id in the token login issued,
\* whatever the body says: the owner recorded on a created post and the author
\* recorded on a created comment are that id.
C6_IdentityFromToken ==
    [][ /\ \A r \in Slots : req'[r].pc # "idle" =>
              req'[r].tok \in issued' /\ req'[r].user = req'[r].tok.id
        /\ \A p \in (DOMAIN posts') \ (DOMAIN posts) :
              \E r \in Slots :
                  /\ Steps(r) /\ req[r].kind = "createPost"
                  /\ Authenticated(r) /\ posts'[p].user = req[r].tok.id
        /\ \A c \in (DOMAIN comments') \ (DOMAIN comments) :
              \E r \in Slots :
                  /\ Steps(r) /\ req[r].kind = "addComment"
                  /\ Authenticated(r) /\ comments'[c].user = req[r].tok.id
      ]_vars

\* A post and a comment are stored under the caller's id although the bodies
\* of their requests named another user.
C6_Witness ==
    /\ \E p \in DOMAIN posts : posts[p].user # 1
    /\ \E r \in Slots :
          /\ req[r].pc = "savingPost" /\ req[r].body.user = 1 /\ req[r].user # 1
          /\ comments[req[r].commentId].user = req[r].user

\* A step in which the auth gate runs: it rejects, or it calls next().
GateRuns ==
    \/ resp'.by = "authenticator"
    \/ \E r \in Slots : req[r].pc = "idle" /\ req'[r].pc = "handler"

\* C7: across a run of the auth gate, passing or rejecting, the users, posts
\* and comments collections are unchanged.
C7_GateLeavesStoreAlone ==
    [][ GateRuns => UNCHANGED <<users, posts, comments>> ]_vars

\* The gate has just rejected a request while the store holds a post and a
\* comment.
C7_Witness ==
    /\ resp.by = "authenticator"
    /\ DOMAIN posts # {} /\ DOMAIN comments # {}

\* C8: a token issued at login passes the auth gate at every time before one
\* hour after its issuance and is rejected at every time from then on,
\* whatever has happened to the users collection since (there is no logout
\* route, and a profile update does not touch it).
C8_TokenLivesOneHour ==
    \A t \in issued :
        /\ t.sig = "server" /\ t.id \in DOMAIN users /\ t.iat <= clock
        /\ IF clock < t.iat + ExpiresIn
           THEN Gate(Bearer(t), clock) = {Pass(t)}
           ELSE Gate(Bearer(t), clock) = {Reject(401)}

\* A user has changed the profile after logging in; the token of that login
\* has expired, and a later token of the same user has not.
C8_Witness ==
    \E t, s \in issued :
        /\ t.id = s.id /\ users[t.id].bio # ""
        /\ clock >= t.iat + ExpiresIn /\ clock < s.iat + ExpiresIn

\* C9: a like request of a user who is in the post's like list when the
\* handler reads the post is answered 400 and leaves every post as it was.
C9_DuplicateLikeIs400 ==
    [][ \A r \in Slots :
            ( /\ req[r].kind = "like" /\ req[r].pc = "handler" /\ Steps(r)
              /\ req[r].postId \in DOMAIN posts
              /\ Occurrences(posts[req[r].postId].likes, req[r].user) > 0 )
            => ( /\ resp'.by = "handler" /\ resp'.kind = "like" /\ resp'.status = 400
                 /\ req'[r].pc = "idle"
                 /\ posts' = posts
                 /\ Len(posts'[req[r].postId].likes) = Len(posts[req[r].postId].likes) )
      ]_vars

\* A duplicate like has just been answered 400 and the like count is 1.
C9_Witness ==
    /\ resp.kind = "like" /\ resp.status = 400
    /\ \E p \in DOMAIN posts : Len(posts[p].likes) = 1

C11_NotYetLikedAndNotFound ==
    [][ \A r \in Slots :
            (req[r].kind \in {"like", "unlike"} /\ req[r].pc = "handler" /\ Steps(r)) =>
                LET p == req[r].postId IN
                /\ p \notin DOMAIN posts =>
                        /\ resp'.by = "handler" /\ resp'.kind = req[r].kind
                        /\ resp'.status = 404
                        /\ req'[r].pc = "idle" /\ posts' = posts
                /\ ( /\ req[r].kind = "unlike" /\ p \in DOMAIN posts
                     /\ Occurrences(posts[p].likes, req[r].user) = 0 ) =>
                        /\ resp'.by = "handler" /\ resp'.kind = "unlike"
                        /\ resp'.status = 400
                        /\ req'[r].pc = "idle" /\ posts' = posts
      ]_vars

\* An unlike of a user who had not liked the post has just been answered 400
\* while the post holds the like of another user.
C11_Witness ==
    /\ resp.kind = "unlike" /\ resp.status = 400
    /\ \E p \in DOMAIN posts : Len(posts[p].likes) = 1

\* The request r is a delete request whose handler is about to read its target.
Deleting(r) ==
    /\ req[r].kind \in {"deletePost", "deleteComment"} /\ req[r].pc = "handler" /\ Steps(r)

\* The target of the delete request r, as findById returns it.
Target(r) ==
    IF req[r].kind = "deletePost" THEN findById(posts, req[r].postId)
    ELSE findById(comments, req[r].commentId)

\* C12 as stated: a delete request for a post or comment id that the caller
\* does not own is answered Forbidden (401), whether or not the id is in the
\* store.
C12_NonOwnerDeleteAlwaysForbidden ==
    [][ \A r \in Slots :
            (Deleting(r) /\ (Target(r) = NoDoc \/ Target(r)[1].user # req[r].user)) =>
                resp'.kind = req[r].kind /\ resp'.status = 401
      ]_vars

\* C12 amended: a delete request for a post or comment that is in the store
\* and whose owner is not the caller is answered Forbidden (401) and leaves
\* posts and comments as they were; a delete request for an id that is not in
\* the store is answered NotFound (404).
C12_NonOwnerDeleteForbiddenWhenPresent ==
    [][ \A r \in Slots : Deleting(r) =>
            /\ (Target(r) # NoDoc /\ Target(r)[1].user # req[r].user) =>
                    /\ resp'.by = "handler" /\ resp'.kind = req[r].kind
                    /\ resp'.status = 401
                    /\ req'[r].pc = "idle"
                    /\ posts' = posts /\ comments' = comments
            /\ Target(r) = NoDoc =>
                    /\ resp'.by = "handler" /\ resp'.kind = req[r].kind
                    /\ resp'.status = 404
                    /\ req'[r].pc = "idle"
                    /\ posts' = posts /\ comments' = comments
      ]_vars

\* A delete of a comment by a user who is not its author has just been
\* answered 401 and the comment is still in the store.
C12_Witness ==
    /\ resp.kind = "deleteComment" /\ resp.status = 401
    /\ \E c \in DOMAIN comments : TRUE

\* C13: a step in which a request is answered 400, 401 or 404 leaves the
\* users, posts and comments collections (like lists included) exactly as
\* they were; after a delete of a post answered 401 the post is in the store
\* and GET /posts/:postId of it answers 200.
C13_RejectedRequestsLeaveStore ==
    [][ /\ resp'.status \in {400, 401, 404} =>
              users' = users /\ posts' = posts /\ comments' = comments
        /\ \A r \in Slots, p \in PostIds :
              ( /\ req[r].kind = "deletePost" /\ req[r].postId = p
                /\ Steps(r) /\ resp'.status = 401 ) =>
                  /\ p \in DOMAIN posts'
                  /\ posts'[p] = posts[p]
                  /\ getById(p)'.status = 200
      ]_vars

\* User B's delete of user A's post has just been answered 401 and the post,
\* with a like on it, is in the store.
C13_Witness ==
    /\ resp.kind = "deletePost" /\ resp.status = 401
    /\ \E p \in DOMAIN posts : Len(posts[p].likes) > 0
    /\ getById(1).status = 200

\* C14: a register request whose email is registered when the handler looks
\* it up is answered 400 and creates no user record; and in every state, also
\* under concurrently interleaved register requests, no two user records
\* share an email.
C14_EmailsStayUnique ==
    [][ /\ \A r \in Slots, body \in RegisterBodies :
              (RegisterFind(r, body) /\ \E u \in DOMAIN users : users[u].email = body.email) =>
                  /\ resp'.by = "handler" /\ resp'.kind = "register"
                  /\ resp'.status = 400
                  /\ users' = users /\ req' = req
        /\ \A r \in Slots :
              (req[r].pc = "idle" /\ req'[r].kind = "register") =>
                  \A u \in DOMAIN users : users[u].email # req'[r].body.email
        /\ \A u, v \in DOMAIN users' : u # v => users'[u].email # users'[v].email
      ]_vars

\* Two register requests with the same email were both past the lookup; one
\* has been saved and the other is about to save.
C14_Witness ==
    \E r, q \in Slots :
        /\ req[r].kind = "register" /\ req[r].pc = "saving"
        /\ req[q].pc = "idle" /\ resp.kind = "register" /\ resp.status \in {200, 201}
        /\ \E u \in DOMAIN users : users[u].email = req[r].doc[1].email

\* C15: when a registration is saved, the stored password differs from the
\* plaintext of the request (no stored password equals any plaintext), and a
\* login with the registered email and that plaintext answers 200 with a
\* token that verifies and carries the new user's id; a login that succeeds
\* for a user keeps succeeding for that user after every later step.
C15_HashedAndLoginSucceeds ==
    [][ /\ \A r \in Slots, body \in RegisterBodies, u \in UserIds :
              ( /\ req[r].kind = "register" /\ req[r].body = body /\ Steps(r)
                /\ u \notin DOMAIN users /\ u \in DOMAIN users' ) =>
                  /\ users'[u].email = body.email
                  /\ users'[u].password # body.password
                  /\ login(body.email, body.password)'.status = 200
                  /\ login(body.email, body.password)'.token.id = u
                  /\ JwtVerify(login(body.email, body.password)'.token, clock')
        /\ \A u \in DOMAIN users', pw \in Passwords : users'[u].password # pw
        /\ \A e \in Emails, pw \in Passwords, u \in UserIds :
              (login(e, pw).status = 200 /\ login(e, pw).token.id = u) =>
                  (login(e, pw)'.status = 200 /\ login(e, pw)'.token.id = u)
      ]_vars

\* The user registered second has just logged in with the plaintext of the
\* registration and received a token with id 2, and both users registered
\* with the same plaintext.
C15_Witness ==
    /\ resp.kind = "login" /\ resp.status = 200 /\ resp.token.id = 2
    /\ Cardinality(DOMAIN users) = 2
    /\ \E pw \in Passwords :
          BcryptCompare(pw, users[1].password) /\ BcryptCompare(pw, users[2].password)

C17_NoPasswordInResponses ==
    \A v \in resp.views : "password" \notin v.fields /\ v.password = NoPassword

\* C18: PUT /user/profile acts on the record whose id is the id in the
\* caller's token: its step leaves every other user record as it was,
\* whatever the body holds, and it is answered 404 when that id is not in the
\* users collection.
C18_UpdatesOwnRecordOr404 ==
    [][ \A r \in Slots :
            (req[r].kind = "updateProfile" /\ req[r].pc = "handler" /\ Steps(r)) =>
                /\ req[r].tok \in issued /\ req[r].user = req[r].tok.id
                /\ \A u \in (DOMAIN users) \ {req[r].user} :
                      u \in DOMAIN users' /\ users'[u] = users[u]
                /\ DOMAIN users' = DOMAIN users
                /\ req[r].user \notin DOMAIN users =>
                      resp'.kind = "updateProfile" /\ resp'.status = 404
      ]_vars

\* The request r is a POST /posts request about to save, and one of
\* stockSymbol, title and description is missing or empty in its body.
CreatesIncomplete(r) ==
    /\ req[r].kind = "createPost" /\ req[r].pc = "handler" /\ Steps(r)
    /\ req[r].body.stockSymbol = "" \/ req[r].body.title = "" \/ req[r].body.description = ""

\* C19 as stated: a POST /posts whose stockSymbol, title or description is
\* missing or empty is answered 400 and creates no post record.
C19_IncompletePostIs400 ==
    [][ \A r \in Slots : CreatesIncomplete(r) =>
            resp'.kind = "createPost" /\ resp'.status = 400 /\ posts' = posts
      ]_vars

\* C19 amended: a POST /posts whose stockSymbol, title or description is
\* missing or empty is answered 500 and creates no post record.
C19_IncompletePostIs500 ==
    [][ \A r \in Slots : CreatesIncomplete(r) =>
            /\ resp'.by = "handler" /\ resp'.kind = "createPost"
            /\ resp'.status = 500
            /\ req'[r].pc = "idle"
            /\ posts' = posts /\ nextPost' = nextPost
      ]_vars

\* A POST /posts without a stockSymbol has just been answered 500 and the
\* store holds no post.
C19_Witness ==
    /\ resp.kind = "createPost" /\ resp.status = 500
    /\ DOMAIN posts = {} /\ nextPost = 0

\* C20: GET /posts with sortBy=likes returns posts in descending order of
\* like count, and with sortBy=date in descending order of creation time:
\* of every two consecutive returned posts the earlier one has a like count
\* (resp. creation time) greater than or equal to the later one's.
C20_ListIsSortedDescending ==
    (resp.kind = "listPosts" /\ resp.status = 200) =>
        \A i \in 1..(Len(resp.items) - 1) :
            LET a == posts[resp.items[i].postId]
                b == posts[resp.items[i + 1].postId] IN
            /\ resp.query.sortBy = "likes" => Len(a.likes) >= Len(b.likes)
            /\ resp.query.sortBy = "date" => a.createdAt >= b.createdAt

\* The posts that match the filter of the query q.
Matching(q) ==
    {p \in DOMAIN posts :
        /\ q.stockSymbol # "" => posts[p].stockSymbol = q.stockSymbol
        /\ q.tags # {} => posts[p].tags \cap q.tags # {}}

\* The smaller and the larger of two numbers.
Min(a, b) == IF a <= b THEN a ELSE b
Max(a, b) == IF a >= b THEN a ELSE b

\* C21: a GET /posts with page p >= 1 and limit L >= 1 over N posts matching
\* the filter is answered with exactly min(L, max(0, N - (p-1)*L)) items,
\* totalPosts = N and totalPages = ceil(N / L).
C21_PageHoldsItsSlice ==
    (resp.kind = "listPosts" /\ resp.status = 200) =>
        LET N == Cardinality(Matching(resp.query))
            L == resp.query.limit
            p == resp.query.page IN
        (p >= 1 /\ L >= 1) =>
            /\ Len(resp.items) = Min(L, Max(0, N - (p - 1) * L))
            /\ \A i \in 1..Len(resp.items) : resp.items[i].postId \in Matching(resp.query)
            /\ resp.pagination.currentPage = p
            /\ resp.pagination.totalPosts = N
            /\ resp.pagination.totalPages * L >= N
            /\ (resp.pagination.totalPages - 1) * L < N

\* The add-comment request r takes the step in which it is answered 200.
AddCommentSucceeds(r) ==
    /\ req[r].kind = "addComment" /\ Steps(r)
    /\ req'[r].pc = "idle" /\ resp'.status = 200

\* C22: POST /posts/:postId/comments is answered 404 when the post is not in
\* the store; whenever it is answered 200, a comment record with user = caller
\* and post = postId is in the store and its id is the last element of that
\* post's comments list.
C22_AddCommentCreatesAndAppends ==
    [][ \A r \in Slots :
            /\ ( /\ req[r].kind = "addComment" /\ req[r].pc = "handler" /\ Steps(r)
                 /\ findById(posts, req[r].postId) = NoDoc ) =>
                    /\ resp'.by = "handler" /\ resp'.kind = "addComment"
                    /\ resp'.status = 404
                    /\ req'[r].pc = "idle"
            /\ AddCommentSucceeds(r) =>
                    \E c \in DOMAIN comments' :
                        /\ comments'[c].user = req[r].user
                        /\ comments'[c].post = req[r].postId
                        /\ req[r].postId \in DOMAIN posts'
                        /\ Len(posts'[req[r].postId].comments) > 0
                        /\ posts'[req[r].postId].comments[Len(posts'[req[r].postId].comments)] = c
      ]_vars

\* C23: in every interleaving of add-comment and delete-post requests, at the
\* moment a comment record is written to the store the post it references is
\* in the store.
C23_CommentWrittenForPresentPost ==
    [][ \A c \in DOMAIN comments' :
            c \notin DOMAIN comments => comments'[c].post \in DOMAIN posts
      ]_vars

\* The two outcomes of a race that the concurrency section names, as
\* predicates.  A like or unlike answered 200 has written the list that was in
\* the store with the caller's toggle applied to it and nothing else, so no
\* other request's saved toggle is overwritten (a lost update would be a save
\* answered 200 for which this fails).
SavedLikesAreTheCallersToggle ==
    [][ \A r \in Slots :
            ( /\ req[r].kind \in {"like", "unlike"} /\ req[r].pc = "saving" /\ Steps(r)
              /\ resp'.status = 200 ) =>
                /\ req[r].postId \in DOMAIN posts
                /\ posts'[req[r].postId].likes =
                       IF req[r].kind = "like"
                       THEN unshift(posts[req[r].postId].likes, req[r].user)
                       ELSE filterOut(posts[req[r].postId].likes, req[r].user)
      ]_vars

\* A comment is in the store, no add-comment request is still running, and no
\* post's comments list holds the comment's id.
CommentWithoutBackReference ==
    /\ \A r \in Slots : req[r].kind # "addComment"
    /\ \E c \in DOMAIN comments :
           \A p \in DOMAIN posts : ~includes(posts[p].comments, c)

\* The delete request r takes the step in which it is answered 200.
DeleteSucceeds(r) ==
    /\ req[r].kind \in {"deletePost", "deleteComment"} /\ Steps(r)
    /\ req'[r].pc = "idle" /\ resp'.status = 200

\* C25: a delete answered 200 removes exactly the record it names.  Deleting a
\* post leaves every other post, every comment (those of the deleted post
\* included) and every user as they were; deleting a comment leaves every
\* other comment, every post (its comments list, with the id of the deleted
\* comment, included) and every user as they were.
C25_DeleteRemovesOnlyItsTarget ==
    [][ \A r \in Slots : DeleteSucceeds(r) =>
            /\ users' = users
            /\ req[r].kind = "deletePost" =>
                  /\ DOMAIN posts' = DOMAIN posts \ {req[r].postId}
                  /\ \A p \in DOMAIN posts' : posts'[p] = posts[p]
                  /\ comments' = comments
            /\ req[r].kind = "deleteComment" =>
                  /\ DOMAIN comments' = DOMAIN comments \ {req[r].commentId}
                  /\ \A c \in DOMAIN comments' : comments'[c] = comments[c]
                  /\ posts' = posts
      ]_vars

\* A delete of a comment has just been answered 200, the comment is gone and
\* the comments list of its post still holds its id.
C25_Witness ==
    /\ resp.kind = "deleteComment" /\ resp.status = 200
    /\ \E p \in DOMAIN posts : \E i \in 1..Len(posts[p].comments) :
           posts[p].comments[i] \notin DOMAIN comments

\* The post id p was given to a post that is no longer in the store (ids are
\* given in order and never again).
Deleted(p) == p <= nextPost /\ p \notin DOMAIN posts

\* The handler of request r, of one of kinds, runs its first store operation
\* and the request names post p.
StartsOn(r, p, kinds) ==
    /\ req[r].kind \in kinds /\ req[r].pc = "handler" /\ Steps(r)
    /\ req[r].postId = p

deleteCommentOutcome(u, c) ==
    IF c \notin DOMAIN comments THEN 404
    ELSE IF comments[c].user # u THEN 401
    ELSE 200

====
